---- MODULE Spec2Model ----
(***************************************************************************)
(* State-machine model of the mini IDE: the CodeEditor undo/redo history,  *)
(* the Index page's selected file, the FileExplorer tree and the AIChat    *)
(* conversation.                                                           *)
(*                                                                         *)
(* Text is a sequence of one-character strings.  Indices into texts and    *)
(* into the history are 0-based, as in the source; TLA+ sequences are      *)
(* 1-based, so the entry at the cursor is history[historyIndex + 1].       *)
(***************************************************************************)
EXTENDS Integers, Sequences, FiniteSets

VARIABLES
  selectedFile,   \* Index: useState selectedFile (a FileNode)
  history,        \* CodeEditor: useState history (HistoryState[])
  historyIndex,   \* CodeEditor: useState historyIndex
  isModified,     \* CodeEditor: useState isModified
  isSaving,       \* CodeEditor: useState isSaving
  selectedText,   \* CodeEditor: useState selectedText
  sel,            \* textarea DOM selection <<selectionStart, selectionEnd>>
  pending,        \* CodeEditor callbacks in flight, each with its closure
  streak,         \* addToHistory calls in a row since the last undo or redo
  owner,          \* for each history entry, the id of the file that was selected
                  \* when the entry was pushed
  files,          \* FileExplorer: useState files (the tree, a FileNode[])
  error,          \* FileExplorer: useState error
  reading,        \* FileExplorer: uploaded files whose FileReader is reading
  now,            \* Date.now()
  added,          \* number of files added to the tree so far
  snapshot,       \* FileExplorer: the files value before the latest tree
                  \* operation, as a reference to it reads now
  messages,       \* AIChat: useState messages (Message[])
  input,          \* AIChat: useState input
  isLoading,      \* AIChat: useState isLoading
  connectionStatus, \* AIChat: useState connectionStatus
  retryCount,     \* AIChat: useState retryCount
  checking,       \* AIChat: checkConnection is awaiting its timer
  sending,        \* AIChat: handleSend calls awaiting the reply, each with its closure
  retryToasts,    \* AIChat: failure toasts on screen, each with its Retry closure
  offers          \* AIChat: code toasts on screen, each with its 'Add to Editor' closure

explorerVars == <<files, error, reading, now, added, snapshot>>

chatVars == <<messages, input, isLoading, connectionStatus, retryCount, checking, sending,
              retryToasts, offers>>

vars == <<selectedFile, history, historyIndex, isModified, isSaving, selectedText, sel,
          pending, streak, owner, explorerVars, chatVars>>

----------------------------------------------------------------------------
\* Bounds of the model

\* history entries an editing session grows to (Spec)
MaxEntries == 4
\* characters typed in a long typing session (SpecTyping)
MaxTyped == 54
\* how far behind the tail a long typing session undoes (SpecTyping)
MaxUndoDepth == 2
\* callbacks in flight at once
MaxPending == 1
\* files added to the tree in an explorer session (SpecExplorer)
MaxAdded == 2
\* clock ticks in an explorer session (SpecExplorer)
MaxTicks == 1
\* Date.now() when the page opens
StartTime == 10
\* messages a conversation grows to (SpecChat)
MaxMessages == 5
\* failed sends in a row (SpecChat)
MaxFailures == 2

----------------------------------------------------------------------------
\* Program constants

\* newHistory.slice(-50)
MaxHistory == 50
\* Math.min(prev + 1, 49)
MaxIndex == 49
\* name.length > 255
MaxNameLength == 255
\* file.size > 1024 * 1024
MaxUploadBytes == 1048576
\* AIChat.tsx:72  text.length > 4000
MaxMessageLength == 4000
\* AIChat.tsx:73  text.length < 3
MinMessageLength == 3
\* AIChat.tsx:172  retryCount < 3
MaxRetries == 3

----------------------------------------------------------------------------
\* Texts

Min(a, b) == IF a < b THEN a ELSE b

\* The texts a user types, loads or replaces with
Texts == { <<>>, <<"a">>, <<"b">>, <<"a", "b">> }

\* seed contents of index.html, style.css and script.js, and '// New file\n'
SeedHtml == <<"h">>
SeedCss == <<"c">>
SeedJs == <<"a", "b">>
NewFileContent == <<"n">>

\* seed names
Src == <<"s", "r", "c">>
IndexHtml == <<"i", "n", "d", "e", "x", ".", "h", "t", "m", "l">>
StyleCss == <<"s", "t", "y", "l", "e", ".", "c", "s", "s">>
ScriptJs == <<"s", "c", "r", "i", "p", "t", ".", "j", "s">>

\* String.prototype.substring(a, b) for 0 <= a <= b: both ends clamp to length
Substring(s, a, b) == SubSeq(s, Min(a, Len(s)) + 1, Min(b, Len(s)))

\* String.prototype.substring(a): to the end
SubstringFrom(s, a) == SubSeq(s, Min(a, Len(s)) + 1, Len(s))

\* value.replace(new RegExp(ch, 'g'), repl) for a one-letter pattern
RECURSIVE ReplaceAll(_, _, _)
ReplaceAll(s, ch, repl) ==
  IF s = <<>> THEN <<>>
  ELSE (IF Head(s) = ch THEN repl ELSE <<Head(s)>>) \o ReplaceAll(Tail(s), ch, repl)

\* CodeEditor prop: value={selectedFile?.content || ''}
value == selectedFile.content

----------------------------------------------------------------------------
\* History ring buffer

\* Array.prototype.slice(0, n)
SliceTo(s, n) == SubSeq(s, 1, Min(n, Len(s)))

\* Array.prototype.slice(-n)
SliceLast(s, n) == IF Len(s) <= n THEN s ELSE SubSeq(s, Len(s) - n + 1, Len(s))

HistoryState(content, cursor) == [content |-> content, cursor |-> cursor]

\* addToHistory keeping one entry too many
HistoryAfterPushKeeps51(prev, capturedIndex, content, cursor) ==
  SliceLast(Append(SliceTo(prev, capturedIndex + 1), HistoryState(content, cursor)),
            MaxHistory + 1)

\* setHistory updater of addToHistory; capturedIndex is the historyIndex of
\* the render that created the callback
HistoryAfterPush(prev, capturedIndex, content, cursor) ==
  SliceLast(Append(SliceTo(prev, capturedIndex + 1), HistoryState(content, cursor)),
            MaxHistory)

\* the files the entries belong to, after the setHistory updater of addToHistory
OwnerAfterPush(prev, capturedIndex, id) ==
  SliceLast(Append(SliceTo(prev, capturedIndex + 1), id), MaxHistory)

\* setHistoryIndex updater of addToHistory
IndexAfterPush(prev) == Min(prev + 1, MaxIndex)

\* pushes in a row, counted up to one past the capacity of the buffer
StreakAfterPush == Min(streak + 1, MaxHistory + 1)

\* history[i] is defined
HasEntry(hist, i) == 0 <= i /\ i < Len(hist)

\* "Track modifications" effect, run after a render that changed a dependency
TrackModifications(val, hist, idx, modified) ==
  IF <<val, hist, idx>> # <<value, history, historyIndex>>
     /\ HasEntry(hist, idx) /\ val # hist[idx + 1].content
  THEN TRUE
  ELSE modified

\* The state after a handler's updates are rendered and the effects have run
Render(newValue, newHistory, newIndex, modified) ==
  /\ selectedFile' = [selectedFile EXCEPT !.content = newValue]
  /\ history' = newHistory
  /\ historyIndex' = newIndex
  /\ isModified' = TrackModifications(newValue, newHistory, newIndex, modified)
  /\ UNCHANGED isSaving

\* A controlled textarea whose value is replaced by React puts the caret at
\* the end; an unchanged value leaves the selection alone
CaretAfter(newValue) ==
  IF newValue = value THEN sel ELSE <<Len(newValue), Len(newValue)>>

\* a FileNode of type 'file'
FileNode(id, name, content) ==
  [id |-> id, name |-> name, type |-> "file", content |-> content]

----------------------------------------------------------------------------
\* Initial state

\* the tree the explorer starts with
SeedFiles ==
  << [id |-> <<"1">>, name |-> Src, type |-> "folder",
      children |-> << FileNode(<<"2">>, IndexHtml, SeedHtml),
                      FileNode(<<"3">>, StyleCss, SeedCss),
                      FileNode(<<"4">>, ScriptJs, SeedJs) >>] >>

\* Message
Message(id, role, content, status) ==
  [id |-> id, role |-> role, content |-> content, status |-> status]

\* the welcome message the chat starts with
WelcomeMessage == Message(<<"1">>, "assistant", <<"H", "e", "l", "l", "o">>, "sent")

Init ==
  /\ selectedFile = FileNode(<<"4">>, ScriptJs, SeedJs)
  /\ history = <<HistoryState(SeedJs, 0)>>
  /\ historyIndex = 0
  /\ isModified = FALSE
  /\ isSaving = FALSE
  /\ selectedText = <<>>
  /\ sel = <<0, 0>>
  /\ pending = {}
  /\ streak = 0
  /\ owner = << <<"4">> >>
  /\ files = SeedFiles
  /\ error = "null"
  /\ reading = {}
  /\ now = StartTime
  /\ added = 0
  /\ snapshot = files
  /\ messages = <<WelcomeMessage>>
  /\ input = <<>>
  /\ isLoading = FALSE
  /\ connectionStatus = "disconnected"
  /\ retryCount = 0
  /\ checking = TRUE
  /\ sending = <<>>
  /\ retryToasts = {}
  /\ offers = {}

----------------------------------------------------------------------------
\* CodeEditor handlers

\* textarea onChange: the user edits the text to v, caret at the end of it
TypeText(v) ==
  /\ v # value
  /\ Render(v, HistoryAfterPush(history, historyIndex, v, Len(v)),
            IndexAfterPush(historyIndex), isModified)
  /\ sel' = <<Len(v), Len(v)>>
  /\ selectedText' = <<>>
  /\ streak' = StreakAfterPush
  /\ owner' = OwnerAfterPush(owner, historyIndex, selectedFile.id)
  /\ UNCHANGED <<pending, explorerVars, chatVars>>

\* textarea onSelect: the user selects [start, end)
HandleTextSelect(start, end) ==
  /\ start <= end /\ end <= Len(value)
  /\ <<start, end>> # sel
  /\ sel' = <<start, end>>
  /\ selectedText' = Substring(value, start, end)
  /\ UNCHANGED <<selectedFile, history, owner, historyIndex, isModified, isSaving, pending, streak,
                 explorerVars, chatVars>>

\* Undo button: disabled={historyIndex === 0}
UndoEnabled == historyIndex # 0

\* Redo button: disabled={historyIndex === history.length - 1}
RedoEnabled == historyIndex # Len(history) - 1

\* handleUndo.  When history[newIndex] is undefined, reading .content throws
\* after setHistoryIndex was queued: only the index changes.
HandleUndo ==
  IF historyIndex > 0
  THEN LET newIndex == historyIndex - 1 IN
       /\ IF HasEntry(history, newIndex)
          THEN /\ Render(history[newIndex + 1].content, history, newIndex, FALSE)
               /\ sel' = CaretAfter(history[newIndex + 1].content)
          ELSE /\ Render(value, history, newIndex, isModified)
               /\ sel' = sel
       /\ streak' = 0
       /\ UNCHANGED <<selectedText, pending, owner, explorerVars, chatVars>>
  ELSE UNCHANGED vars

\* handleRedo
HandleRedo ==
  IF historyIndex < Len(history) - 1
  THEN LET newIndex == historyIndex + 1 IN
       /\ Render(history[newIndex + 1].content, history, newIndex, FALSE)
       /\ sel' = CaretAfter(history[newIndex + 1].content)
       /\ streak' = 0
       /\ UNCHANGED <<selectedText, pending, owner, explorerVars, chatVars>>
  ELSE UNCHANGED vars

\* A callback in flight: what its closure captured
Closure(kind, val, idx, content) ==
  [kind |-> kind, value |-> val, historyIndex |-> idx, content |-> content]

\* handleCut up to the await of navigator.clipboard.writeText
HandleCut ==
  /\ selectedText # <<>>
  /\ pending' = pending \cup {Closure("cut", value, historyIndex, <<>>)}
  /\ UNCHANGED <<selectedFile, history, owner, historyIndex, isModified, isSaving, selectedText, sel,
                 streak, explorerVars, chatVars>>

\* handleCut after the await: value and addToHistory are the closure's, the
\* selection is read from the textarea now
CutResolved(p) ==
  /\ p \in pending /\ p.kind = "cut"
  /\ LET start == sel[1]
         end == sel[2]
         newValue == Substring(p.value, 0, start) \o SubstringFrom(p.value, end)
     IN /\ Render(newValue, HistoryAfterPush(history, p.historyIndex, newValue, start),
                  IndexAfterPush(historyIndex), TRUE)
        /\ sel' = CaretAfter(newValue)
  /\ selectedText' = <<>>
  /\ pending' = pending \ {p}
  /\ streak' = StreakAfterPush
  /\ owner' = OwnerAfterPush(owner, p.historyIndex, selectedFile.id)
  /\ UNCHANGED <<explorerVars, chatVars>>

\* handleCut: the clipboard write rejects (catch branch)
CutRejected(p) ==
  /\ p \in pending /\ p.kind = "cut"
  /\ pending' = pending \ {p}
  /\ UNCHANGED <<selectedFile, history, owner, historyIndex, isModified, isSaving, selectedText, sel,
                 streak, explorerVars, chatVars>>

\* handleFileUpload of the editor, up to reader.readAsText(file); a file over
\* the size limit only shows an error
HandleFileUpload(content) ==
  /\ pending' = pending \cup {Closure("load", <<>>, historyIndex, content)}
  /\ UNCHANGED <<selectedFile, history, owner, historyIndex, isModified, isSaving, selectedText, sel,
                 streak, explorerVars, chatVars>>

\* reader.onload
FileLoaded(p) ==
  /\ p \in pending /\ p.kind = "load"
  /\ Render(p.content, HistoryAfterPush(history, p.historyIndex, p.content, 0),
            IndexAfterPush(historyIndex), TRUE)
  /\ sel' = CaretAfter(p.content)
  /\ UNCHANGED selectedText
  /\ pending' = pending \ {p}
  /\ streak' = StreakAfterPush
  /\ owner' = OwnerAfterPush(owner, p.historyIndex, selectedFile.id)
  /\ UNCHANGED <<explorerVars, chatVars>>

\* reader.onerror
FileLoadFailed(p) ==
  /\ p \in pending /\ p.kind = "load"
  /\ pending' = pending \ {p}
  /\ UNCHANGED <<selectedFile, history, owner, historyIndex, isModified, isSaving, selectedText, sel,
                 streak, explorerVars, chatVars>>

\* handleReplace with a one-letter search term
HandleReplace(searchTerm, replaceTerm) ==
  LET newValue == ReplaceAll(value, searchTerm, replaceTerm) IN
  IF newValue # value
  THEN /\ Render(newValue, HistoryAfterPush(history, historyIndex, newValue, 0),
                 IndexAfterPush(historyIndex), TRUE)
       /\ sel' = CaretAfter(newValue)
       /\ streak' = StreakAfterPush
       /\ owner' = OwnerAfterPush(owner, historyIndex, selectedFile.id)
       /\ UNCHANGED <<selectedText, pending, explorerVars, chatVars>>
  ELSE UNCHANGED vars

\* Save button: disabled={!isModified || isSaving}
SaveEnabled == isModified /\ ~isSaving

\* handleSave up to its await
HandleSave ==
  IF ~isModified
  THEN UNCHANGED vars
  ELSE /\ isSaving' = TRUE
       /\ pending' = pending \cup {Closure("save", value, historyIndex, <<>>)}
       /\ UNCHANGED <<selectedFile, history, owner, historyIndex, isModified, selectedText,
                      sel, streak, explorerVars, chatVars>>

\* the auto-save timer fires: the effect arms it only while isModified, with
\* the handleSave of that render
AutoSaveFired ==
  /\ isModified
  /\ HandleSave

\* handleSave after its await (a timer, which always resolves), then finally
SaveResolved(p) ==
  /\ p \in pending /\ p.kind = "save"
  /\ isModified' = FALSE
  /\ isSaving' = FALSE
  /\ pending' = pending \ {p}
  /\ UNCHANGED <<selectedFile, history, owner, historyIndex, selectedText, sel, streak,
                 explorerVars, chatVars>>

\* The keydown listener is registered by an effect with no dependencies: its
\* handleSave, handleUndo and handleRedo are those of the first render, which
\* hold the state the editor was mounted with
MountHistory == <<HistoryState(SeedJs, 0)>>
MountIndex == 0
MountModified == FALSE

\* Ctrl/Cmd+Z: handleUndo of the first render
KeyUndo ==
  IF MountIndex > 0
  THEN LET newIndex == MountIndex - 1 IN
       /\ Render(MountHistory[newIndex + 1].content, history, newIndex, FALSE)
       /\ sel' = CaretAfter(MountHistory[newIndex + 1].content)
       /\ streak' = 0
       /\ UNCHANGED <<selectedText, pending, owner, explorerVars, chatVars>>
  ELSE UNCHANGED vars

\* Ctrl/Cmd+Shift+Z: handleRedo of the first render
KeyRedo ==
  IF MountIndex < Len(MountHistory) - 1
  THEN LET newIndex == MountIndex + 1 IN
       /\ Render(MountHistory[newIndex + 1].content, history, newIndex, FALSE)
       /\ sel' = CaretAfter(MountHistory[newIndex + 1].content)
       /\ streak' = 0
       /\ UNCHANGED <<selectedText, pending, owner, explorerVars, chatVars>>
  ELSE UNCHANGED vars

\* Ctrl/Cmd+S: handleSave of the first render
KeySave ==
  IF ~MountModified
  THEN UNCHANGED vars
  ELSE /\ isSaving' = TRUE
       /\ pending' = pending \cup {Closure("save", SeedJs, MountIndex, <<>>)}
       /\ UNCHANGED <<selectedFile, history, owner, historyIndex, isModified, selectedText,
                      sel, streak, explorerVars, chatVars>>

----------------------------------------------------------------------------
\* FileExplorer: names and ids

\* String.prototype.trim, for blanks
RECURSIVE TrimStart(_)
TrimStart(s) == IF s # <<>> /\ Head(s) = " " THEN TrimStart(Tail(s)) ELSE s

RECURSIVE TrimEnd(_)
TrimEnd(s) ==
  IF s # <<>> /\ s[Len(s)] = " " THEN TrimEnd(SubSeq(s, 1, Len(s) - 1)) ELSE s

Trim(s) == TrimEnd(TrimStart(s))

\* String.prototype.includes, for one character
Includes(s, ch) == \E i \in 1..Len(s) : s[i] = ch

\* validateFileName rejecting a name of exactly the maximum length
ValidateFileNameOffByOne(name) ==
  IF Trim(name) = <<>> THEN "File name cannot be empty"
  ELSE IF Includes(name, "/") \/ Includes(name, "\\")
       THEN "Invalid characters in file name"
  ELSE IF Len(name) >= MaxNameLength THEN "File name too long"
  ELSE IF name[1] = "." THEN "File name cannot start with a dot"
  ELSE "null"

\* validateFileName: the error message, or "null"
ValidateFileName(name) ==
  IF Trim(name) = <<>> THEN "File name cannot be empty"
  ELSE IF Includes(name, "/") \/ Includes(name, "\\")
       THEN "Invalid characters in file name"
  ELSE IF Len(name) > MaxNameLength THEN "File name too long"
  ELSE IF name[1] = "." THEN "File name cannot start with a dot"
  ELSE "null"

\* Number.prototype.toString
RECURSIVE ToString(_)
ToString(n) ==
  LET digit == <<"0", "1", "2", "3", "4", "5", "6", "7", "8", "9">>[(n % 10) + 1]
  IN IF n < 10 THEN <<digit>> ELSE Append(ToString(n \div 10), digit)

\* Math.random(), as it is appended to a string
Randoms == { <<"0">>, <<"0", ".", "5">> }

----------------------------------------------------------------------------
\* FileExplorer: the tree

\* if (node.children)
HasChildren(node) == "children" \in DOMAIN node

\* findFileById: <<node>> for the first match in depth-first order, <<>> for null
RECURSIVE FindFileById(_, _)
FindFileById(id, nodes) ==
  IF nodes = <<>> THEN <<>>
  ELSE LET node == Head(nodes)
           found == IF HasChildren(node) THEN FindFileById(id, node.children) ELSE <<>>
       IN IF node.id = id THEN <<node>>
          ELSE IF found # <<>> THEN found
          ELSE FindFileById(id, Tail(nodes))

\* updateFileInTree looking at the given list only, not below it
UpdateFileInTreeTopOnly(targetId, editName, nodes) ==
  [i \in 1..Len(nodes) |->
     IF nodes[i].id = targetId THEN [nodes[i] EXCEPT !.name = editName] ELSE nodes[i]]

\* updateFileInTree with confirmEdit's updater, file => ({ ...file, name: editName })
RECURSIVE UpdateFileInTree(_, _, _)
UpdateFileInTree(targetId, editName, nodes) ==
  [i \in 1..Len(nodes) |->
     IF nodes[i].id = targetId THEN [nodes[i] EXCEPT !.name = editName]
     ELSE IF HasChildren(nodes[i])
          THEN [nodes[i] EXCEPT !.children = UpdateFileInTree(targetId, editName, @)]
          ELSE nodes[i]]

\* deleteFileFromTree looking at the given list only, not below it
DeleteFileFromTreeTopOnly(targetId, nodes) ==
  SelectSeq(nodes, LAMBDA node : node.id # targetId)

\* deleteFileFromTree
RECURSIVE DeleteFileFromTree(_, _)
DeleteFileFromTree(targetId, nodes) ==
  IF nodes = <<>> THEN <<>>
  ELSE LET node == Head(nodes)
           rest == DeleteFileFromTree(targetId, Tail(nodes))
       IN IF node.id = targetId THEN rest
          ELSE IF HasChildren(node)
               THEN <<[node EXCEPT !.children = DeleteFileFromTree(targetId, @)]>> \o rest
               ELSE <<node>> \o rest

\* setFiles updater of createNewFile and of reader.onload
PushChild(prev, newFile) ==
  IF prev # <<>> /\ HasChildren(prev[1])
  THEN [prev EXCEPT ![1].children = Append(@, newFile)]
  ELSE prev

\* what a reference to prev reads after the setFiles updater of createNewFile
\* or reader.onload ran: updated = [...prev] copies only the top-level array,
\* so updated[0].children.push(newFile) pushes onto prev's own child list
PrevAfterPush(prev, newFile) ==
  IF prev # <<>> /\ HasChildren(prev[1])
  THEN [prev EXCEPT ![1].children = Append(@, newFile)]
  ELSE prev

\* what a reference to nodes reads after deleteFileFromTree(targetId, nodes):
\* filter leaves the array itself alone, but node.children = ... assigns to the
\* nodes it keeps
PrevAfterDelete(targetId, nodes) ==
  [i \in 1..Len(nodes) |->
     IF nodes[i].id # targetId /\ HasChildren(nodes[i])
     THEN [nodes[i] EXCEPT !.children = DeleteFileFromTree(targetId, @)]
     ELSE nodes[i]]

\* files[0]?.children
RootChildren == IF files # <<>> /\ HasChildren(files[1]) THEN files[1].children ELSE <<>>

\* the duplicate check looking at the top-level list instead of the folder
IsDuplicateAtTopLevel(name) == \E i \in 1..Len(files) : files[i].name = name

\* files[0]?.children?.some(child => child.name === newFileName)
IsDuplicate(name) == \E i \in 1..Len(RootChildren) : RootChildren[i].name = name

\* the fallback list of deleteFile without its filter
WithoutIdKeepsAll(nodes, fileId) == nodes

\* files[0]?.children?.filter(f => f.id !== fileId)
RECURSIVE WithoutId(_, _)
WithoutId(nodes, fileId) ==
  IF nodes = <<>> THEN <<>>
  ELSE (IF Head(nodes).id # fileId THEN <<Head(nodes)>> ELSE <<>>)
       \o WithoutId(Tail(nodes), fileId)

\* toLowerCase, one character
Uppers == <<"A", "B", "C", "D", "E", "F", "G", "H", "I", "J", "K", "L", "M",
            "N", "O", "P", "Q", "R", "S", "T", "U", "V", "W", "X", "Y", "Z">>
Lowers == <<"a", "b", "c", "d", "e", "f", "g", "h", "i", "j", "k", "l", "m",
            "n", "o", "p", "q", "r", "s", "t", "u", "v", "w", "x", "y", "z">>
LowerChar(ch) ==
  IF \E k \in 1..Len(Uppers) : Uppers[k] = ch
  THEN Lowers[CHOOSE k \in 1..Len(Uppers) : Uppers[k] = ch]
  ELSE ch

\* toLowerCase
ToLowerCase(s) == [i \in 1..Len(s) |-> LowerChar(s[i])]

\* s.includes(t) for strings
IncludesString(s, t) ==
  \E i \in 0..(Len(s) - Len(t)) : SubSeq(s, i + 1, i + Len(t)) = t

\* filteredFiles comparing the names as they are written
RECURSIVE FilteredFilesCaseSensitive(_, _)
FilteredFilesCaseSensitive(searchTerm, nodes) ==
  IF searchTerm = <<>> THEN nodes
  ELSE LET kept == SelectSeq(nodes, LAMBDA node :
                     \/ IncludesString(node.name, searchTerm)
                     \/ /\ HasChildren(node)
                        /\ Len(FilteredFilesCaseSensitive(searchTerm, node.children)) > 0)
       IN [i \in 1..Len(kept) |->
             IF HasChildren(kept[i])
             THEN [kept[i] EXCEPT
                     !.children = FilteredFilesCaseSensitive(searchTerm, @)]
             ELSE kept[i]]

\* filteredFiles with the search box holding searchTerm
RECURSIVE FilteredFiles(_, _)
FilteredFiles(searchTerm, nodes) ==
  IF searchTerm = <<>> THEN nodes
  ELSE LET kept == SelectSeq(nodes, LAMBDA node :
                     \/ IncludesString(ToLowerCase(node.name), ToLowerCase(searchTerm))
                     \/ /\ HasChildren(node)
                        /\ Len(FilteredFiles(searchTerm, node.children)) > 0)
       IN [i \in 1..Len(kept) |->
             IF HasChildren(kept[i])
             THEN [kept[i] EXCEPT !.children = FilteredFiles(searchTerm, @)]
             ELSE kept[i]]

\* Index.handleFileSelect, then the editor's render and effects
OnFileSelect(file) ==
  /\ selectedFile' = file
  /\ isModified' = TrackModifications(file.content, history, historyIndex, isModified)
  /\ sel' = CaretAfter(file.content)
  /\ UNCHANGED isSaving

----------------------------------------------------------------------------
\* FileExplorer handlers

\* createNewFile with newFileName = name
CreateNewFile(name) ==
  LET validation == ValidateFileName(name) IN
  IF validation # "null"
  THEN /\ error' = validation
       /\ UNCHANGED <<selectedFile, history, owner, historyIndex, isModified, isSaving, selectedText, sel,
                      pending, streak, chatVars, files, reading, now, added, snapshot>>
  ELSE IF IsDuplicate(name)
  THEN /\ error' = "File with this name already exists"
       /\ UNCHANGED <<selectedFile, history, owner, historyIndex, isModified, isSaving, selectedText, sel,
                      pending, streak, chatVars, files, reading, now, added, snapshot>>
  ELSE LET newFile == FileNode(ToString(now), name, NewFileContent) IN
       /\ files' = PushChild(files, newFile)
       /\ snapshot' = PrevAfterPush(files, newFile)
       /\ error' = "null"
       /\ OnFileSelect(newFile)
       /\ added' = added + 1
       /\ UNCHANGED <<history, owner, historyIndex, selectedText, pending, streak, chatVars,
                      reading, now>>

\* handleFileUpload of the explorer rejecting a file of exactly the limit
ExplorerFileUploadAtLimit(batch) ==
  /\ reading' = reading \cup { batch[i] : i \in { j \in 1..Len(batch) :
                                                  ~(batch[j].size >= MaxUploadBytes) } }
  /\ UNCHANGED <<selectedFile, history, owner, historyIndex, isModified, isSaving,
                 selectedText, sel, pending, streak, chatVars, files, error, now, added,
                 snapshot>>

\* handleFileUpload of the explorer: every file of the batch within the size
\* limit gets a FileReader
ExplorerFileUpload(batch) ==
  /\ reading' = reading \cup { batch[i] : i \in { j \in 1..Len(batch) :
                                                  ~(batch[j].size > MaxUploadBytes) } }
  /\ UNCHANGED <<selectedFile, history, owner, historyIndex, isModified, isSaving, selectedText, sel,
                 pending, streak, chatVars, files, error, now, added, snapshot>>

\* reader.onload of an uploaded file; random is Math.random() as a string
ExplorerFileLoaded(file, random) ==
  /\ file \in reading
  /\ LET newFile == FileNode(ToString(now) \o random, file.name, file.content) IN
     /\ files' = PushChild(files, newFile)
     /\ snapshot' = PrevAfterPush(files, newFile)
  /\ reading' = reading \ {file}
  /\ added' = added + 1
  /\ UNCHANGED <<selectedFile, history, owner, historyIndex, isModified, isSaving, selectedText, sel,
                 pending, streak, chatVars, error, now>>

\* the ids of the files listed under the folder, each with a menu
ListedIds == { RootChildren[i].id : i \in 1..Len(RootChildren) }

\* startEdit on the file, then confirmEdit with editName = name
ConfirmEdit(editingFile, editName) ==
  /\ editingFile \in ListedIds
  /\ IF ValidateFileName(editName) # "null"
     THEN UNCHANGED vars
     ELSE /\ files' = UpdateFileInTree(editingFile, editName, files)
          /\ snapshot' = files
          /\ UNCHANGED <<selectedFile, history, owner, historyIndex, isModified, isSaving, selectedText,
                         sel, pending, streak, chatVars, error, reading, now, added>>

\* deleteFile
DeleteFile(fileId) ==
  /\ fileId \in ListedIds
  /\ FindFileById(fileId, files) # <<>>
  /\ files' = DeleteFileFromTree(fileId, files)
  /\ snapshot' = PrevAfterDelete(fileId, files)
  /\ LET remainingFiles == WithoutId(RootChildren, fileId) IN
     IF selectedFile.id = fileId /\ Len(remainingFiles) > 0
     THEN OnFileSelect(remainingFiles[1])
     ELSE UNCHANGED <<selectedFile, isModified, isSaving, sel>>
  /\ UNCHANGED <<history, owner, historyIndex, selectedText, pending, streak, chatVars, error,
                 reading, now,
                 added>>

\* click on a file of the tree
ClickFile(i) ==
  /\ i \in 1..Len(RootChildren)
  /\ OnFileSelect(RootChildren[i])
  /\ UNCHANGED <<history, owner, historyIndex, selectedText, pending, streak, explorerVars,
                 chatVars>>

\* the clock advances
Tick ==
  /\ now' = now + 1
  /\ UNCHANGED <<selectedFile, history, owner, historyIndex, isModified, isSaving, selectedText, sel,
                 pending, streak, chatVars, files, error, reading, added, snapshot>>

----------------------------------------------------------------------------
\* Spec: an editing session on the selected file

\* the entries the buffer grows to when every callback in flight has pushed
Room(max) == Len(history) + Cardinality(pending) < max

\* another callback may start
Idle == Cardinality(pending) < MaxPending

Next ==
  \/ \E v \in Texts : Room(MaxEntries) /\ TypeText(v)
  \/ \E s \in 0..2, e \in 0..2 : HandleTextSelect(s, e)
  \/ UndoEnabled /\ HandleUndo
  \/ RedoEnabled /\ HandleRedo
  \/ Room(MaxEntries) /\ Idle /\ HandleCut
  \/ \E p \in pending : CutResolved(p)
  \/ \E p \in pending : CutRejected(p)
  \/ \E c \in Texts : Room(MaxEntries) /\ Idle /\ HandleFileUpload(c)
  \/ \E p \in pending : FileLoaded(p)
  \/ \E p \in pending : FileLoadFailed(p)
  \/ \E ch \in {"a", "b"}, r \in {<<>>, <<"b">>} :
        Room(MaxEntries) /\ HandleReplace(ch, r)

Spec == Init /\ [][Next]_vars

\* SpecSave: an editing session with the Save button, the auto-save timer and
\* the keyboard shortcuts
NextSave ==
  \/ \E v \in {<<"a">>, <<"b">>} : Room(MaxEntries) /\ TypeText(v)
  \/ UndoEnabled /\ HandleUndo
  \/ RedoEnabled /\ HandleRedo
  \/ \E r \in {<<>>, <<"b">>} : Room(MaxEntries) /\ HandleReplace("a", r)
  \/ SaveEnabled /\ Idle /\ HandleSave
  \/ Idle /\ AutoSaveFired
  \/ \E p \in pending : SaveResolved(p)
  \/ KeyUndo
  \/ KeyRedo
  \/ KeySave

SpecSave == Init /\ [][NextSave]_vars

----------------------------------------------------------------------------
\* SpecTyping: a long typing session.  The user appends one letter at a time,
\* undoes and redoes near the tail, and loads a file picked before the first
\* edit, whose read completes at any later time.

UndoDepth == Len(history) - 1 - historyIndex

NextTyping ==
  \/ Len(value) < MaxTyped /\ TypeText(Append(value, "a"))
  \/ UndoEnabled /\ UndoDepth < MaxUndoDepth /\ HandleUndo
  \/ RedoEnabled /\ HandleRedo
  \/ history = <<HistoryState(SeedJs, 0)>> /\ pending = {} /\ HandleFileUpload(<<"b">>)
  \/ \E p \in pending : FileLoaded(p)

SpecTyping == Init /\ [][NextTyping]_vars

----------------------------------------------------------------------------
\* SpecExplorer: a session in the file explorer

\* a character repeated n times
Repeat(ch, n) == [i \in 1..n |-> ch]

AJs == <<"a", ".", "j", "s">>
BJs == <<"b", ".", "j", "s">>

\* names typed into the new-file and rename inputs
TypedNames ==
  { <<>>, <<" ">>, <<"a", "/", "b">>, <<"a", "\\", "b">>, <<".", "e", "n", "v">>,
    Repeat("x", MaxNameLength + 1), Repeat("x", MaxNameLength),
    AJs, ScriptJs }

\* files picked in the upload dialog
Upload(name, size) == [name |-> name, content |-> <<"u">>, size |-> size]

\* the files added once every read in flight has completed
Adding == added + Cardinality(reading)

\* the explorer handlers that add, rename and delete files
ExplorerEdits(names, batches) ==
  \/ now < StartTime + MaxTicks /\ Tick
  \/ \E name \in names : Adding < MaxAdded /\ CreateNewFile(name)
  \/ \E batch \in batches : Adding + Len(batch) <= MaxAdded /\ ExplorerFileUpload(batch)
  \/ \E file \in reading, random \in Randoms : ExplorerFileLoaded(file, random)
  \/ \E id \in ListedIds, name \in {StyleCss, <<>>} : ConfirmEdit(id, name)
  \/ \E id \in ListedIds : DeleteFile(id)

\* the user works on the tree and clicks through the files; one upload batch
\* holds a file over the size limit and a file of exactly the limit
NextExplorer ==
  \/ ExplorerEdits({<<>>, AJs, BJs, ScriptJs},
                   {<< Upload(<<"b">>, MaxUploadBytes + 1), Upload(<<"c">>, MaxUploadBytes) >>})
  \/ \E i \in 1..Len(RootChildren) : ClickFile(i)

SpecExplorer == Init /\ [][NextExplorer]_vars

\* SpecNames: the user tries every kind of name in the new-file input, among
\* files that are uploaded, renamed and deleted
NextNames ==
  \/ \E name \in TypedNames : Adding < MaxAdded /\ CreateNewFile(name)
  \/ Adding < MaxAdded /\ ExplorerFileUpload(<< Upload(AJs, 1) >>)
  \/ \E file \in reading : ExplorerFileLoaded(file, <<"0">>)
  \/ \E id \in ListedIds : ConfirmEdit(id, StyleCss)
  \/ \E id \in ListedIds : DeleteFile(id)

SpecNames == Init /\ [][NextNames]_vars

\* SpecSearch: files with capital letters in their names are created, renamed
\* and deleted while the search box filters the tree
AJsCapital == <<"A", ".", "j", "s">>
CssCapital == <<"c", "S", "s">>
SrcCapital == <<"S", "R", "C">>

NextSearch ==
  \/ \E name \in {AJsCapital, CssCapital} : Adding < MaxAdded /\ CreateNewFile(name)
  \/ \E id \in ListedIds : ConfirmEdit(id, SrcCapital)
  \/ \E id \in ListedIds : DeleteFile(id)

SpecSearch == Init /\ [][NextSearch]_vars

----------------------------------------------------------------------------
\* AIChat. The reply of the assistant is awaited inside try/catch; the model
\* lets the awaited request resolve or throw. isTyping follows isLoading and
\* progress is display only.

\* validateInput: the error message, or "null"
ValidateInput(text) ==
  IF Trim(text) = <<>> THEN "Please enter a message"
  ELSE IF Len(text) > MaxMessageLength THEN "Message too long (max 4000 characters)"
  ELSE IF Len(text) < MinMessageLength THEN "Message too short (min 3 characters)"
  ELSE "null"

\* the line of three backquotes that opens or closes a code block of a reply,
\* as one character
Fence == "#"

\* generateEnhancedResponse: one reply for prompts about an api, another for
\* the rest, which quotes the prompt; each reply is a sentence and a code block
GenerateEnhancedResponse(userInput) ==
  LET lowercaseInput == ToLowerCase(userInput) IN
  IF IncludesString(lowercaseInput, <<"a", "p", "i">>)
  THEN <<"H", Fence, "f", Fence>>
  ELSE lowercaseInput \o <<Fence, "/">> \o userInput \o <<Fence>>

\* the places of the fences in a reply
FencePlaces(content) == { i \in 1..Len(content) : content[i] = Fence }

\* aiResponse.content.match(...) is not null: a fence, the code, a fence
HasCodeMatch(content) == Cardinality(FencePlaces(content)) >= 2

\* codeMatch[2]: the text between the first fence and the one after it
CodeMatch(content) ==
  LET first == CHOOSE i \in FencePlaces(content) : \A j \in FencePlaces(content) : i <= j
      next == CHOOSE i \in FencePlaces(content) \ {first} :
                \A j \in FencePlaces(content) \ {first} : i <= j
  IN SubSeq(content, first + 1, next - 1)

\* the content of the failure message of handleSend's catch
SorryMessage == <<"S", "o", "r", "r", "y">>

\* what a handleSend closure holds of the render it was created in; its
\* onCodeGenerate is the handleAICodeGenerate of that render of Index, which
\* holds the selectedFile of that render
SendClosure(inp, count, file) == [input |-> inp, retryCount |-> count, selectedFile |-> file]

\* the handleSend of the current render
CurrentSend == SendClosure(input, retryCount, selectedFile)

\* a code toast: the snippet and the onCodeGenerate its button calls
Offer(code, file) == [code |-> code, selectedFile |-> file]

\* prev.map(msg => msg.id === id ? { ...msg, status: 'sent' } : msg)
MarkSent(prev, id) ==
  [i \in 1..Len(prev) |->
     IF prev[i].id = id THEN [prev[i] EXCEPT !.status = "sent"] ELSE prev[i]]

\* s without its i-th element
RemoveAt(s, i) == SubSeq(s, 1, i - 1) \o SubSeq(s, i + 1, Len(s))

\* checkConnection after its await: the try continues
ConnectionChecked ==
  /\ checking
  /\ checking' = FALSE
  /\ connectionStatus' = "connected"
  /\ UNCHANGED <<selectedFile, history, owner, historyIndex, isModified, isSaving, selectedText, sel,
                 pending, streak, explorerVars, messages, input, isLoading, retryCount,
                 sending, retryToasts, offers>>

\* checkConnection after its await: the catch
ConnectionCheckFailed ==
  /\ checking
  /\ checking' = FALSE
  /\ connectionStatus' = "error"
  /\ UNCHANGED <<selectedFile, history, owner, historyIndex, isModified, isSaving, selectedText, sel,
                 pending, streak, explorerVars, messages, input, isLoading, retryCount,
                 sending, retryToasts, offers>>

\* Input onChange; the input is disabled while loading and in state error
SetInput(text) ==
  /\ ~(isLoading \/ connectionStatus = "error")
  /\ input' = text
  /\ UNCHANGED <<selectedFile, history, owner, historyIndex, isModified, isSaving, selectedText, sel,
                 pending, streak, explorerVars, messages, isLoading, connectionStatus,
                 retryCount, checking, sending, retryToasts, offers>>

\* handleSend up to its await, called through the closure c
HandleSend(c) ==
  IF ValidateInput(c.input) # "null"
  THEN UNCHANGED vars
  ELSE LET userMessage == Message(ToString(now), "user", Trim(c.input), "sending") IN
       /\ messages' = MarkSent(Append(messages, userMessage), userMessage.id)
       /\ input' = <<>>
       /\ isLoading' = TRUE
       /\ sending' = Append(sending, [closure |-> c, before |-> messages])
       /\ UNCHANGED <<selectedFile, history, owner, historyIndex, isModified, isSaving, selectedText, sel,
                      pending, streak, explorerVars, connectionStatus, retryCount,
                      checking, retryToasts, offers>>

\* the Send button, disabled without text, while loading and in state error
ClickSend ==
  /\ ~(Trim(input) = <<>> \/ isLoading \/ connectionStatus = "error")
  /\ HandleSend(CurrentSend)

\* Enter in the input: e.key === 'Enter' && !isLoading && handleSend()
PressEnter ==
  /\ ~(isLoading \/ connectionStatus = "error")
  /\ HandleSend(CurrentSend)

\* the Retry button of a failure toast: handleSend of the render that sent
ClickRetry(c) ==
  /\ c \in retryToasts
  /\ HandleSend(c)

\* a failure toast goes away
DismissToast(c) ==
  /\ c \in retryToasts
  /\ retryToasts' = retryToasts \ {c}
  /\ UNCHANGED <<selectedFile, history, owner, historyIndex, isModified, isSaving, selectedText, sel,
                 pending, streak, explorerVars, messages, input, isLoading,
                 connectionStatus, retryCount, checking, sending, offers>>

\* handleSend after its await: the try continues, then finally; the code
\* toast is shown by a timer the try starts
ReplyArrived(i) ==
  /\ i \in 1..Len(sending)
  /\ LET aiResponse == Message(ToString(now + 1), "assistant",
                               GenerateEnhancedResponse(sending[i].closure.input), "sent")
     IN /\ messages' = Append(messages, aiResponse)
        /\ offers' = IF HasCodeMatch(aiResponse.content)
                     THEN offers \cup {Offer(CodeMatch(aiResponse.content),
                                             sending[i].closure.selectedFile)}
                     ELSE offers
  /\ retryCount' = 0
  /\ connectionStatus' = "connected"
  /\ isLoading' = FALSE
  /\ sending' = RemoveAt(sending, i)
  /\ UNCHANGED <<selectedFile, history, owner, historyIndex, isModified, isSaving, selectedText, sel,
                 pending, streak, explorerVars, input, checking, retryToasts>>

\* handleSend after its await: the catch, then finally
SendFailed(i) ==
  /\ i \in 1..Len(sending)
  /\ LET errorMessage == Message(ToString(now + 2), "assistant", SorryMessage, "error")
     IN messages' = Append(messages, errorMessage)
  /\ connectionStatus' = "error"
  /\ retryCount' = retryCount + 1
  /\ retryToasts' = IF sending[i].closure.retryCount < MaxRetries
                    THEN retryToasts \cup {sending[i].closure}
                    ELSE retryToasts
  /\ isLoading' = FALSE
  /\ sending' = RemoveAt(sending, i)
  /\ UNCHANGED <<selectedFile, history, owner, historyIndex, isModified, isSaving, selectedText, sel,
                 pending, streak, explorerVars, input, checking, offers>>

\* the separator handleAICodeGenerate puts before the snippet
BlankLine == <<"\n", "\n">>

\* the 'Add to Editor' button of a code toast: Index.handleAICodeGenerate of the
\* render the toast's handleSend was created in, then handleCodeChange, whose
\* updater writes to the file selected now; the editor's effects follow
ClickAddToEditor(o) ==
  /\ o \in offers
  /\ LET newContent == o.selectedFile.content \o BlankLine \o o.code IN
     /\ Render(newContent, history, historyIndex, isModified)
     /\ sel' = CaretAfter(newContent)
  /\ UNCHANGED <<selectedText, pending, streak, owner, explorerVars, chatVars>>

\* a code toast goes away (duration: 10000)
OfferExpired(o) ==
  /\ o \in offers
  /\ offers' = offers \ {o}
  /\ UNCHANGED <<selectedFile, history, owner, historyIndex, isModified, isSaving, selectedText,
                 sel, pending, streak, explorerVars, messages, input, isLoading,
                 connectionStatus, retryCount, checking, sending, retryToasts>>

\* clearMessages
ClearMessages ==
  /\ messages' = <<messages[1]>>
  /\ UNCHANGED <<selectedFile, history, owner, historyIndex, isModified, isSaving, selectedText, sel,
                 pending, streak, explorerVars, input, isLoading, connectionStatus,
                 retryCount, checking, sending, retryToasts, offers>>

\* window.location.reload(): the page starts again
Reload ==
  /\ selectedFile' = FileNode(<<"4">>, ScriptJs, SeedJs)
  /\ history' = <<HistoryState(SeedJs, 0)>>
  /\ historyIndex' = 0
  /\ isModified' = FALSE
  /\ isSaving' = FALSE
  /\ selectedText' = <<>>
  /\ sel' = <<0, 0>>
  /\ pending' = {}
  /\ streak' = 0
  /\ owner' = << <<"4">> >>
  /\ files' = SeedFiles
  /\ error' = "null"
  /\ reading' = {}
  /\ added' = 0
  /\ snapshot' = SeedFiles
  /\ messages' = <<WelcomeMessage>>
  /\ input' = <<>>
  /\ isLoading' = FALSE
  /\ connectionStatus' = "disconnected"
  /\ retryCount' = 0
  /\ checking' = TRUE
  /\ sending' = <<>>
  /\ retryToasts' = {}
  /\ offers' = {}
  /\ UNCHANGED now

\* SpecChat: a conversation with the assistant
ChatTexts == { <<>>, <<"h", "i">>, <<"a", "p", "i">> }

NextChat ==
  \/ ConnectionChecked
  \/ ConnectionCheckFailed
  \/ \E text \in ChatTexts : SetInput(text)
  \/ Len(messages) + Len(sending) + 2 <= MaxMessages /\ ClickSend
  \/ Len(messages) + Len(sending) + 2 <= MaxMessages /\ PressEnter
  \/ \E c \in retryToasts :
       Len(messages) + Len(sending) + 2 <= MaxMessages /\ ClickRetry(c)
  \/ \E c \in retryToasts : DismissToast(c)
  \/ \E o \in offers : OfferExpired(o)
  \/ \E i \in 1..Len(sending) : ReplyArrived(i)
  \/ \E i \in 1..Len(sending) : retryCount < MaxFailures /\ SendFailed(i)
  \/ ClearMessages
  \/ Reload
  \/ now < StartTime + MaxTicks /\ Tick

SpecChat == Init /\ [][NextChat]_vars

----------------------------------------------------------------------------
\* Claims about the history ring buffer

\* C1: in every reachable state the history cursor satisfies
\* 0 <= historyIndex <= history.length - 1
C1_CursorInRange == 0 <= historyIndex /\ historyIndex <= Len(history) - 1

\* C2: in every reachable state the history buffer holds at least 1 and at
\* most 50 entries
C2_HistoryBounded == 1 <= Len(history) /\ Len(history) <= 50

\* C2 witness: the buffer is full, its oldest entries were dropped and a
\* push has just overflowed it
C2_FullBuffer ==
  /\ Len(history) = 50
  /\ streak > 50
  /\ history[1].content # SeedJs

\* a step that calls addToHistory
IsPush == streak' = StreakAfterPush /\ streak' # streak

\* C3: a push made while the cursor is before the tail discards every entry
\* after the cursor: the kept entries are those up to the cursor, the new
\* entry is the last one, the cursor points at it and redo is unavailable
C3_PushDiscardsRedo ==
  [][(IsPush /\ historyIndex < Len(history) - 1) =>
       /\ SubSeq(history', 1, Len(history') - 1) = SubSeq(history, 1, historyIndex + 1)
       /\ history'[Len(history')].content = value'
       /\ historyIndex' = Len(history') - 1
       /\ ~RedoEnabled']_vars

\* C4: after more than 50 pushes in a row the buffer holds exactly 50
\* entries, the 50 most recently pushed in push order (each typed text is
\* the one before it plus a letter, the last is the text shown), and the
\* cursor is at the last entry
C4_KeepsNewest ==
  streak > 50 =>
    /\ Len(history) = 50
    /\ \A i \in 1..(Len(history) - 1) :
         Len(history[i + 1].content) = Len(history[i].content) + 1
    /\ history[Len(history)].content = value
    /\ historyIndex = Len(history) - 1

\* C5: no two adjacent history entries have equal content (a push of the
\* content at the cursor is a no-op)
C5_NoAdjacentDuplicates ==
  \A i \in 1..(Len(history) - 1) : history[i].content # history[i + 1].content

\* C6: undo with the cursor > 0 decrements it by exactly 1, shows the content
\* of the entry now pointed to and leaves the entries alone; with the cursor
\* at 0 it changes nothing; the Undo button is enabled exactly when cursor > 0
C6_Undo ==
  /\ [](UndoEnabled <=> historyIndex > 0)
  /\ [][HandleUndo =>
         IF historyIndex > 0
         THEN /\ historyIndex' = historyIndex - 1
              /\ HasEntry(history, historyIndex')
              /\ value' = history[historyIndex' + 1].content
              /\ history' = history
         ELSE UNCHANGED vars]_vars

\* C7: redo with the cursor < length-1 increments it by exactly 1, shows the
\* content of the entry now pointed to and leaves the entries alone; with the
\* cursor at the tail it changes nothing; the Redo button is enabled exactly
\* when cursor < length-1
C7_Redo ==
  /\ [](RedoEnabled <=> historyIndex < Len(history) - 1)
  /\ [][HandleRedo =>
         IF historyIndex < Len(history) - 1
         THEN /\ historyIndex' = historyIndex + 1
              /\ HasEntry(history, historyIndex')
              /\ value' = history[historyIndex' + 1].content
              /\ history' = history
         ELSE UNCHANGED vars]_vars

----------------------------------------------------------------------------
\* Claims about the file tree

\* the ids of a list of nodes and of everything below them, in display order
RECURSIVE TreeIds(_)
TreeIds(nodes) ==
  IF nodes = <<>> THEN <<>>
  ELSE <<Head(nodes).id>>
       \o (IF HasChildren(Head(nodes)) THEN TreeIds(Head(nodes).children) ELSE <<>>)
       \o TreeIds(Tail(nodes))

\* C8: every node id is unique across the whole tree: no id occurs at two
\* positions
C8_UniqueIds ==
  LET ids == TreeIds(files) IN
  \A i, j \in 1..Len(ids) : ids[i] = ids[j] => i = j

\* the names of the files under the folder
SiblingNames == { files[1].children[i].name : i \in 1..Len(files[1].children) }

DuplicateNameError == "File with this name already exists"

\* C9: create with the name of an existing sibling is rejected with the
\* duplicate-name error and adds no node
C9_DuplicateRejected ==
  [][\A name \in TypedNames \cap SiblingNames :
       CreateNewFile(name) =>
          (files' = files /\ error' = DuplicateNameError)]_vars

\* C9 witness: a.js was created, a second create of a.js was rejected, and
\* the folder holds a.js once
C9_SecondCreateRejected ==
  /\ error = DuplicateNameError
  /\ Cardinality({ i \in 1..Len(files[1].children) :
                     files[1].children[i].name = AJs }) = 1
  /\ \E i \in 1..Len(files[1].children) :
       files[1].children[i] = FileNode(ToString(StartTime), AJs, NewFileContent)

\* the names the claim says are rejected
IsBlank(name) == \A i \in 1..Len(name) : name[i] = " "
HasSeparator(name) == \E i \in 1..Len(name) : name[i] \in {"/", "\\"}
StartsWithDot(name) == Len(name) > 0 /\ name[1] = "."

ValidationErrors ==
  { "File name cannot be empty", "Invalid characters in file name",
    "File name too long", "File name cannot start with a dot" }

\* what every create that changes the state changes: an accepted one adds a
\* file, a rejected one sets the error
CreateChangedState == added' # added \/ error' # error

\* C10: create is rejected with a validation error, adding no node, when the
\* name is empty or blank, contains '/' or '\', is longer than 255 characters
\* or starts with a dot; any other name that collides with no sibling is
\* accepted and added as the last file of the folder
C10_NameValidation ==
  [][\A name \in TypedNames :
       (CreateChangedState /\ CreateNewFile(name)) =>
         IF IsBlank(name) \/ HasSeparator(name) \/ Len(name) > 255 \/ StartsWithDot(name)
         THEN files' = files /\ error' \in ValidationErrors
         ELSE IF name \in SiblingNames
         THEN files' = files
         ELSE /\ Len(files'[1].children) = Len(files[1].children) + 1
              /\ files'[1].children[Len(files'[1].children)].name = name
              /\ SubSeq(files'[1].children, 1, Len(files[1].children)) = files[1].children
              /\ error' = "null"]_vars

\* C10 witness: a name of exactly 255 characters was accepted and a name of
\* 256 characters was then rejected
C10_LongNameRejected ==
  /\ error = "File name too long"
  /\ Repeat("x", 255) \in SiblingNames

\* SpecMerge: the user edits files, moves between them and asks the assistant
\* for code, which the 'Add to Editor' button of the toast merges
ApiPrompt == <<"a", "p", "i">>

NextMerge ==
  \/ Room(MaxEntries) /\ TypeText(<<"x">>)
  \/ \E i \in 1..Len(RootChildren) : ClickFile(i)
  \/ UndoEnabled /\ HandleUndo
  \/ RedoEnabled /\ HandleRedo
  \/ SetInput(ApiPrompt)
  \/ Len(messages) + 2 < MaxMessages /\ ClickSend
  \/ \E i \in 1..Len(sending) : ReplyArrived(i)
  \/ \E o \in offers : ClickAddToEditor(o)
  \/ \E o \in offers : OfferExpired(o)

SpecMerge == Init /\ [][NextMerge]_vars

\* SpecUpload: batches of files are uploaded, among them one over the size
\* limit and one of exactly the limit, and files are deleted
UploadBatch ==
  << Upload(<<"b">>, MaxUploadBytes + 1), Upload(<<"c">>, MaxUploadBytes),
     Upload(<<"d">>, 1) >>

NextUpload ==
  \/ now < StartTime + MaxTicks /\ Tick
  \/ Adding + 2 <= MaxAdded /\ ExplorerFileUpload(UploadBatch)
  \/ \E file \in reading, random \in Randoms : ExplorerFileLoaded(file, random)
  \/ \E id \in ListedIds : DeleteFile(id)

SpecUpload == Init /\ [][NextUpload]_vars

----------------------------------------------------------------------------
\* Claims about rename, delete and the filter

\* a name the validation of create rejects
IsInvalidName(name) ==
  IsBlank(name) \/ HasSeparator(name) \/ Len(name) > 255 \/ StartsWithDot(name)

\* name is the name of a sibling other than the file with this id
UsedByOtherSibling(id, name) ==
  \E i \in 1..Len(files[1].children) :
    files[1].children[i].id # id /\ files[1].children[i].name = name

\* C11: a rename to a name that a different sibling already has is rejected
\* and leaves the tree unchanged
C11_RenameRejectsDuplicate ==
  [][\A id \in ListedIds :
       (ConfirmEdit(id, StyleCss) /\ UsedByOtherSibling(id, StyleCss)) =>
          files' = files]_vars

\* C12: after a rejected operation (create or rename with an invalid or
\* duplicate name, upload of a file over the size limit) the tree and the
\* selection are what they were before it
C12_RejectedChangesNothing ==
  [][(\/ \E name \in {<<>>, AJs, BJs, ScriptJs} :
           CreateNewFile(name) /\ (IsInvalidName(name) \/ name \in SiblingNames)
      \/ \E id \in ListedIds, name \in {StyleCss, <<>>} :
           ConfirmEdit(id, name) /\ (IsInvalidName(name) \/ UsedByOtherSibling(id, name))
      \/ reading' # reading /\ added' = added)
     => (files' = files /\ selectedFile' = selectedFile)]_vars

\* C13: a tree operation leaves the tree value that was current before it as
\* it was: a reference to the earlier tree still reads the earlier contents
C13_EarlierTreeUntouched == [][files' # files => snapshot' = files]_vars

TreeIdSet == { TreeIds(files)[i] : i \in 1..Len(TreeIds(files)) }

\* C15: the selected file is never a node that has been removed from the
\* tree; deleting the only remaining file leaves nothing selected
C15_SelectedInTree == selectedFile.id \in TreeIdSet

\* the nodes of a tree in display order, each with the ids of the nodes above it
FlatEntry(node, up) ==
  [up |-> up, id |-> node.id, name |-> node.name, type |-> node.type,
   content |-> IF "content" \in DOMAIN node THEN node.content ELSE <<>>]

RECURSIVE Flat(_, _)
Flat(nodes, up) ==
  IF nodes = <<>> THEN <<>>
  ELSE <<FlatEntry(Head(nodes), up)>>
       \o (IF "children" \in DOMAIN Head(nodes)
           THEN Flat(Head(nodes).children, Append(up, Head(nodes).id))
           ELSE <<>>)
       \o Flat(Tail(nodes), up)

Range(s) == { s[i] : i \in 1..Len(s) }

\* an id no node has
AbsentId == <<"0">>

\* C16: delete(id) removes the nodes with that id together with what is below
\* them, and leaves every other node and the order of the rest as they were;
\* with an id that no node has the tree is unchanged
C16_DeleteRemovesOnlyTarget ==
  \A id \in TreeIdSet \cup {AbsentId} :
    /\ Flat(DeleteFileFromTree(id, files), <<>>)
         = SelectSeq(Flat(files, <<>>), LAMBDA e : e.id # id /\ id \notin Range(e.up))
    /\ id \notin TreeIdSet => DeleteFileFromTree(id, files) = files

\* C16 witness: style.css was deleted and index.html and script.js are left,
\* in that order
C16_MiddleFileDeleted ==
  /\ Len(files[1].children) = 2
  /\ files[1].children[1] = FileNode(<<"2">>, IndexHtml, SeedHtml)
  /\ files[1].children[2] = FileNode(<<"4">>, ScriptJs, SeedJs)

\* C17: update(id, rename) gives the same tree except that the nodes with
\* that id have the new name: every node keeps its place, id, kind and
\* content, and every other node its name
C17_UpdateChangesOnlyTarget ==
  \A id \in TreeIdSet \cup {AbsentId} :
    LET before == Flat(files, <<>>)
        after == Flat(UpdateFileInTree(id, AJs, files), <<>>)
    IN /\ Len(after) = Len(before)
       /\ \A i \in 1..Len(before) :
            after[i] = IF before[i].id = id
                       THEN [before[i] EXCEPT !.name = AJs]
                       ELSE before[i]

\* C17 witness: index.html was renamed to style.css and nothing else changed
C17_FirstFileRenamed ==
  files = << [id |-> <<"1">>, name |-> Src, type |-> "folder",
              children |-> << FileNode(<<"2">>, StyleCss, SeedHtml),
                              FileNode(<<"3">>, StyleCss, SeedCss),
                              FileNode(<<"4">>, ScriptJs, SeedJs) >>] >>

\* the search terms tried on every tree
SearchTerms ==
  { <<>>, <<"s">>, <<"S", "r">>, <<"c", "s", "s">>, <<".", "J">>, <<"z">> }

\* two characters that are the same letter, in either case
SameLetter(a, b) ==
  a = b \/ \E k \in 1..Len(Uppers) : {a, b} = {Uppers[k], Lowers[k]}

\* the term occurs in the name, whatever the case of the letters
NameMatches(name, term) ==
  \E i \in 0..(Len(name) - Len(term)) :
    \A k \in 1..Len(term) : SameLetter(name[i + k], term[k])

\* the entry at position i of a flat tree has an entry below it that matches
HasMatchBelow(flat, i, term) ==
  \E j \in 1..Len(flat) :
    /\ Len(flat[j].up) > Len(flat[i].up)
    /\ SubSeq(flat[j].up, 1, Len(flat[i].up) + 1) = Append(flat[i].up, flat[i].id)
    /\ NameMatches(flat[j].name, term)

\* the positions of a flat tree that the filter keeps
KeptPositions(flat, term) ==
  { i \in 1..Len(flat) : NameMatches(flat[i].name, term) \/ HasMatchBelow(flat, i, term) }

RECURSIVE Pick(_, _, _)
Pick(flat, keep, i) ==
  IF i > Len(flat) THEN <<>>
  ELSE (IF i \in keep THEN <<flat[i]>> ELSE <<>>) \o Pick(flat, keep, i + 1)

\* C18: the filtered tree holds exactly the nodes whose name matches the term
\* in any case or that have a matching node below them, in their order and
\* under their parents, and an empty term gives the tree itself
C18_FilterKeepsMatches ==
  \A term \in SearchTerms :
    LET flat == Flat(files, <<>>) IN
    /\ term # <<>> =>
         Flat(FilteredFiles(term, files), <<>>) = Pick(flat, KeptPositions(flat, term), 1)
    /\ term = <<>> => FilteredFiles(term, files) = files

\* C18 witness: A.js was created, and the term ".J" keeps the folder, A.js and
\* script.js
C18_CapitalNameFound ==
  /\ \E i \in 1..Len(files[1].children) : files[1].children[i].name = AJsCapital
  /\ LET shown == Flat(FilteredFiles(<<".", "J">>, files), <<>>) IN
       /\ Len(shown) = 3
       /\ shown[1].name = Src
       /\ \E i \in 1..Len(shown) : shown[i].name = AJsCapital
       /\ \E i \in 1..Len(shown) : shown[i].name = ScriptJs

----------------------------------------------------------------------------
\* Claims about the chat

\* the changes of the connection state that the state machine allows
AllowedStatusChanges ==
  { <<"disconnected", "connecting">>, <<"connecting", "connected">>,
    <<"connecting", "error">>, <<"connected", "error">>, <<"error", "connecting">> }

\* C19: the connection state changes only along disconnected -> connecting ->
\* {connected, error}, connected -> error and error -> connecting; a reload
\* of the page starts the state machine again
C19_AllowedTransitions ==
  [][(connectionStatus' # connectionStatus /\ ~Reload) =>
       <<connectionStatus, connectionStatus'>> \in AllowedStatusChanges]_vars

----------------------------------------------------------------------------
\* Claims about uploads, merged code, selection, shortcuts and saving

\* the files of the uploaded batch that are not larger than 1 MiB
WithinLimit == { UploadBatch[i] : i \in { j \in 1..Len(UploadBatch) :
                                           UploadBatch[j].size <= 1024 * 1024 } }

\* C21: of an upload batch every file larger than 1 MiB is rejected and adds
\* no node, every other file, a file of exactly 1 MiB among them, is read and
\* added to the tree
C21_OversizeOnlyRejected ==
  [][/\ (reading' # reading /\ added' = added) =>
          (reading' = reading \cup WithinLimit /\ files' = files)
     /\ (added' = added + 1) =>
          \E file \in reading \cap WithinLimit :
            /\ reading' = reading \ {file}
            /\ Len(RootChildren') = Len(RootChildren) + 1
            /\ RootChildren'[Len(RootChildren')].name = file.name
            /\ RootChildren'[Len(RootChildren')].content = file.content
     /\ \A i \in 1..Len(RootChildren') : RootChildren'[i].name # <<"b">>]_vars

\* C21 witness: the batch was uploaded and read: the file of exactly 1 MiB and
\* the small one are in the tree, the file over the limit is not
C21_BatchLoaded ==
  /\ reading = {}
  /\ \E i \in 1..Len(RootChildren) : RootChildren[i].name = <<"c">>
  /\ \E i \in 1..Len(RootChildren) : RootChildren[i].name = <<"d">>
  /\ \A i \in 1..Len(RootChildren) : RootChildren[i].name # <<"b">>

\* the entry at the history cursor holds this content
CursorHolds(hist, idx, content) == HasEntry(hist, idx) /\ hist[idx + 1].content = content

\* C22: after typing or merging a snippet with 'Add to Editor' the entry at
\* the history cursor holds the new content of the selected file
C22_ChangePushesHistory ==
  [][(\/ TypeText(<<"x">>)
      \/ \E o \in offers : ClickAddToEditor(o) /\ selectedFile'.content # selectedFile.content)
     => CursorHolds(history', historyIndex', selectedFile'.content)]_vars

\* C23: an undo or redo that changes the content never writes an entry that
\* was recorded for another file into the selected one
C23_UndoWritesOwnEntries ==
  [][((HandleUndo \/ HandleRedo) /\ selectedFile'.content # selectedFile.content)
     => owner[historyIndex' + 1] = selectedFile.id]_vars

\* C24: 'Add to Editor' appends the snippet to the content the selected file
\* has at the moment of the click
C24_MergeAppendsToCurrent ==
  [][\A o \in offers :
       ClickAddToEditor(o) =>
         /\ selectedFile'.id = selectedFile.id
         /\ selectedFile'.content = selectedFile.content \o BlankLine \o o.code]_vars

\* the contents the tree stores for an id
StoredContents(nodes, id) ==
  { Flat(nodes, <<>>)[i].content :
      i \in { j \in 1..Len(Flat(nodes, <<>>)) : Flat(nodes, <<>>)[j].id = id } }

\* C25: the content the tree stores for an id is the last content the editor
\* wrote for that id, so that selecting the file again shows its last edit
C25_TreeHoldsLastEdit ==
  [][(selectedFile'.id = selectedFile.id /\ selectedFile'.content # selectedFile.content
      /\ ~(\E i \in 1..Len(RootChildren) : ClickFile(i)))
     => StoredContents(files', selectedFile.id) = {selectedFile'.content}]_vars

\* C26: whenever the Undo, Redo or Save button would change the state, the
\* shortcut Ctrl/Cmd+Z, Ctrl/Cmd+Shift+Z or Ctrl/Cmd+S changes it too
C26_ShortcutsActLikeButtons ==
  /\ (ENABLED <<UndoEnabled /\ HandleUndo>>_vars) => (ENABLED <<KeyUndo>>_vars)
  /\ (ENABLED <<RedoEnabled /\ HandleRedo>>_vars) => (ENABLED <<KeyRedo>>_vars)
  /\ (ENABLED <<SaveEnabled /\ HandleSave>>_vars) => (ENABLED <<KeySave>>_vars)

C29_TypingMarksModified ==
  [][/\ (\E v \in {<<"a">>, <<"b">>} : TypeText(v)) => isModified'
     /\ (isModified /\ ~isModified') => \E p \in pending : SaveResolved(p)]_vars

====
